---- MODULE Spec2Model ----
(***************************************************************************)
(* Model of the primal-dual interior point solver of GridCal               *)
(* (GridCalEngine/Utils/IPS/ips.py): step_calculation, calc_error and the  *)
(* iteration driver interior_point_solver.                                 *)
(*                                                                         *)
(* Floating point values are modelled as exact rationals <<n, d>> (d > 0,  *)
(* lowest terms) extended with the IEEE special values NaN = <<0, 0>>,     *)
(* +inf = <<1, 0>> and -inf = <<-1, 0>>.  Rounding is not modelled.  A     *)
(* value whose numerator or denominator does not fit the integers of the   *)
(* model checker is the marker Unrep; runs that produce it are not         *)
(* explored (guard Representable of Iterate).                              *)
(***************************************************************************)
EXTENDS Integers, Sequences, FiniteSets, TLC

\* ------------------------------------------------------------------------
\* Bounds of the model
\* ------------------------------------------------------------------------
MaxIter == 2
MaxNIneq == 1
MaxLen == 2

\* Largest integer the arithmetic below may produce.
MaxInt == (2^30 - 1) + 2^30

\* ------------------------------------------------------------------------
\* Floating point values
\* ------------------------------------------------------------------------
NaN == <<0, 0>>
PInf == <<1, 0>>
NInf == <<-1, 0>>
Unrep == <<0, -1>>

Abs(i) == IF i < 0 THEN -i ELSE i
Sgn(i) == IF i < 0 THEN -1 ELSE IF i > 0 THEN 1 ELSE 0

RECURSIVE GCD(_, _)
GCD(a, b) == IF b = 0 THEN a ELSE GCD(b, a % b)

SafeProd(a, b) == a = 0 \/ b = 0 \/ Abs(a) <= MaxInt \div Abs(b)

\* n/d in lowest terms, d > 0
Q(n, d) == LET g == GCD(Abs(n), d) IN <<n \div g, d \div g>>
F(n) == <<n, 1>>

IsFin(a) == a[2] > 0
IsNaN(a) == a = NaN

FNeg(a) == <<-a[1], a[2]>>

FMul(a, b) ==
  IF a = Unrep \/ b = Unrep THEN Unrep
  ELSE IF IsNaN(a) \/ IsNaN(b) THEN NaN
  ELSE IF ~IsFin(a) \/ ~IsFin(b)
       THEN LET s == Sgn(a[1]) * Sgn(b[1]) IN IF s = 0 THEN NaN ELSE <<s, 0>>
  ELSE LET g1 == GCD(Abs(a[1]), b[2])
           g2 == GCD(Abs(b[1]), a[2])
           n1 == a[1] \div g1
           d2 == b[2] \div g1
           n2 == b[1] \div g2
           d1 == a[2] \div g2
       IN IF SafeProd(n1, n2) /\ SafeProd(d1, d2)
          THEN <<n1 * n2, d1 * d2>>
          ELSE Unrep

FAdd(a, b) ==
  IF a = Unrep \/ b = Unrep THEN Unrep
  ELSE IF IsNaN(a) \/ IsNaN(b) THEN NaN
  ELSE IF ~IsFin(a) /\ ~IsFin(b) THEN (IF a = b THEN a ELSE NaN)
  ELSE IF ~IsFin(a) THEN a
  ELSE IF ~IsFin(b) THEN b
  ELSE LET g == GCD(a[2], b[2])
           m1 == b[2] \div g
           m2 == a[2] \div g
       IN IF SafeProd(a[1], m1) /\ SafeProd(b[1], m2) /\ SafeProd(a[2], m1)
          THEN LET p1 == a[1] * m1
                   p2 == b[1] * m2
               IN IF Abs(p1) <= MaxInt - Abs(p2)
                  THEN Q(p1 + p2, a[2] * m1)
                  ELSE Unrep
          ELSE Unrep

FSub(a, b) == FAdd(a, FNeg(b))

\* 1.0 / a: 1/0 is inf, 1/inf is 0
FInv(a) ==
  IF a = Unrep THEN Unrep
  ELSE IF IsNaN(a) THEN NaN
  ELSE IF ~IsFin(a) THEN F(0)
  ELSE IF a[1] = 0 THEN PInf
  ELSE <<Sgn(a[1]) * a[2], Abs(a[1])>>

FDiv(a, b) == FMul(a, FInv(b))

FAbs(a) == IF a = Unrep THEN Unrep ELSE <<Abs(a[1]), a[2]>>

\* Order of two non-negative rationals n1/d1, n2/d2 (-1, 0, 1), computed on
\* their continued fractions so that no product is formed.
RECURSIVE CmpPos(_, _, _, _)
CmpPos(n1, d1, n2, d2) ==
  LET q1 == n1 \div d1
      q2 == n2 \div d2
      r1 == n1 % d1
      r2 == n2 % d2
  IN IF q1 # q2 THEN Sgn(q1 - q2)
     ELSE IF r1 = 0 \/ r2 = 0 THEN Sgn(r1 - r2)
     ELSE -CmpPos(d1, r1, d2, r2)

\* IEEE a < b: false when either side is NaN
FLt(a, b) ==
  IF a = Unrep \/ b = Unrep \/ IsNaN(a) \/ IsNaN(b) THEN FALSE
  ELSE IF ~IsFin(a) \/ ~IsFin(b)
       THEN (IF ~IsFin(a) /\ ~IsFin(b) THEN a[1] < b[1]
             ELSE IF ~IsFin(a) THEN a[1] < 0
             ELSE b[1] > 0)
  ELSE IF Sgn(a[1]) # Sgn(b[1]) THEN Sgn(a[1]) < Sgn(b[1])
  ELSE IF a[1] >= 0 THEN CmpPos(a[1], a[2], b[1], b[2]) < 0
  ELSE CmpPos(-b[1], b[2], -a[1], a[2]) < 0

FGt(a, b) == FLt(b, a)

\* IEEE a <= b: false when either side is NaN
FLe(a, b) ==
  IF a = Unrep \/ b = Unrep \/ IsNaN(a) \/ IsNaN(b) THEN FALSE
  ELSE ~FLt(b, a)

FGe(a, b) == FLe(b, a)

\* min(a, b) and max(a, b) of Python and numba: the first argument is kept
\* unless the second compares strictly smaller (larger)
PyMin(a, b) ==
  IF a = Unrep \/ b = Unrep THEN Unrep
  ELSE IF FLt(b, a) THEN b ELSE a

PyMax(a, b) ==
  IF a = Unrep \/ b = Unrep THEN Unrep
  ELSE IF FGt(b, a) THEN b ELSE a

\* ------------------------------------------------------------------------
\* Vectors: sequences of floating point values
\* ------------------------------------------------------------------------
Vec(S, n) == [1..n -> S]
Ones(n) == [i \in 1..n |-> F(1)]
Zeros(n) == [i \in 1..n |-> F(0)]

RECURSIVE SumTo(_, _)
SumTo(v, k) == IF k = 0 THEN F(0) ELSE FAdd(SumTo(v, k - 1), v[k])
Sum(v) == SumTo(v, Len(v))

\* dense a @ b
Dot(a, b) == Sum([i \in 1..Len(a) |-> FMul(a[i], b[i])])

VAdd(a, b) == [i \in 1..Len(a) |-> FAdd(a[i], b[i])]
VScale(a, s) == [i \in 1..Len(a) |-> FMul(a[i], s)]
VNeg(a) == [i \in 1..Len(a) |-> FNeg(a[i])]
VMul(a, b) == [i \in 1..Len(a) |-> FMul(a[i], b[i])]
VInv(a) == [i \in 1..Len(a) |-> FInv(a[i])]

HasUnrep(v) == \E i \in 1..Len(v) : v[i] = Unrep

\* ------------------------------------------------------------------------
\* step_calculation, split, calc_error
\* ------------------------------------------------------------------------
\* the literal 0.9999995 of step_calculation
SafetyFactor == Q(1999999, 2000000)

\* alpha = 1.0 before the loop of step_calculation
StepAlphaInit == F(1)

\* the loop of step_calculation with the test dV[i] <= 0 in place of dV[i] < 0
RECURSIVE StepAlpha_NonStrict(_, _, _)
StepAlpha_NonStrict(V, dV, k) ==
  IF k = 0 THEN StepAlphaInit
  ELSE LET alpha == StepAlpha_NonStrict(V, dV, k - 1)
       IN IF FLe(dV[k], F(0))
          THEN PyMin(alpha, FDiv(FNeg(V[k]), dV[k]))
          ELSE alpha

\* alpha after the first k components of the loop of step_calculation
RECURSIVE StepAlpha(_, _, _)
StepAlpha(V, dV, k) ==
  IF k = 0 THEN StepAlphaInit
  ELSE LET alpha == StepAlpha(V, dV, k - 1)
       IN IF FLt(dV[k], F(0))
          THEN PyMin(alpha, FDiv(FNeg(V[k]), dV[k]))
          ELSE alpha

step_calculation(V, dV) ==
  PyMin(FMul(SafetyFactor, StepAlpha(V, dV, Len(V))), F(1))

\* split(sol, n): sol[:n], sol[n:]
split(sol, n) ==
  << [i \in 1..n |-> sol[i]], [i \in 1..(Len(sol) - n) |-> sol[n + i]] >>

\* err after the first k entries of the arrays scanned one after the other
RECURSIVE ErrScan(_, _)
ErrScan(arr, k) ==
  IF k = 0 THEN F(0)
  ELSE LET err == ErrScan(arr, k - 1)
           v == FAbs(arr[k])
       IN IF v = Unrep \/ err = Unrep THEN Unrep
          ELSE IF FGt(v, err) THEN v ELSE err

calc_error(dx_, dz_, dmu_, dlmbda) ==
  LET arr == dx_ \o dz_ \o dmu_ \o dlmbda
  IN ErrScan(arr, Len(arr))

\* ------------------------------------------------------------------------
\* Sparse helpers (one variable: n_x = 1).  An entry equal to 0 of a sparse
\* matrix is a structural zero: it is not stored and takes no part in a
\* product, whatever the other factor is.
\* ------------------------------------------------------------------------
n_x == 1

SpMul(h, v) == IF h = F(0) THEN F(0) ELSE FMul(h, v)

\* sparse row (1 x n) @ dense vector
SpRowDot(h, v) == Sum([i \in 1..Len(h) |-> SpMul(h[i], v[i])])

\* diags(v): the diagonal of the sparse diagonal matrix
diags(v) == v

\* pack_3_by_4(M, Gx, Gx.T): the KKT matrix [[M, Gx], [Gx.T, 0]] as rows
pack_3_by_4(M, Gx, GxT) ==
  IF Len(Gx) = 0 THEN << <<M>> >>
  ELSE << <<M, Gx[1]>>, <<GxT[1], F(0)>> >>

\* sparse.linalg.spsolve(J, r) for a system of one or two unknowns: an
\* exactly singular matrix gives a vector filled with NaN (and a warning)
spsolve(J, r) ==
  IF Len(J) = 1
  THEN IF J[1][1] = F(0) THEN <<NaN>> ELSE <<FDiv(r[1], J[1][1])>>
  ELSE LET det == FSub(FMul(J[1][1], J[2][2]), FMul(J[1][2], J[2][1]))
       IN IF det = F(0) THEN <<NaN, NaN>>
          ELSE << FDiv(FSub(FMul(r[1], J[2][2]), FMul(J[1][2], r[2])), det),
                  FDiv(FSub(FMul(J[1][1], r[2]), FMul(J[2][1], r[1])), det) >>

SolveFails(J) ==
  IF Len(J) = 1 THEN J[1][1] = F(0)
  ELSE FSub(FMul(J[1][1], J[2][2]), FMul(J[1][2], J[2][1])) = F(0)

\* ------------------------------------------------------------------------
\* interior_point_solver: state
\* ------------------------------------------------------------------------
VARIABLES
  pc,               \* "loop": at the while test; "returned"; "raised"
  n_eq, n_ineq, max_iter, tol, x0,      \* arguments of the call
  x, z, lam, mu, gamma, error, iter_counter, converged,
  z_inv, mu_diag,   \* cached diagonals
  error_evolution,  \* array of max_iter + 1 entries (index 0 is entry 1)
  ret,              \* <<>> while unbound, <<bundle>> after an evaluator call
  dx, dz, dmu, dlam, \* increments of the last iteration (<<>> before it)
  rec,              \* <<>> until the call returns, then <<IpsSolution>>
  eval_calls,       \* number of calls of func so far
  solve_calls,      \* number of calls of spsolve so far
  solve_failed,     \* some spsolve of this call met a singular matrix
  verbose,          \* argument verbose of the call
  printed,          \* number of print calls the call has made
  other,            \* <<>>, or the locals of a second call that is not running
  active,           \* which call's locals the variables above hold: 1 or 2
  eval_at,          \* <<>>, or the <<x, mu, lam>> the last call of func was given
  fpc,              \* a call of a helper alone: "off", "call", "done"
  fargs,            \* its arguments
  fres,             \* its result
  cpc,              \* nonlinear_contingency_analysis: "off", "for", "applied",
                    \* "reverted", "returned", "raised"
  ic,               \* groups of contingency_groups_used already left behind
  groups,           \* contingency_groups_used, a group named by its idtag
  status,           \* groups handed to set_con_or_ra_status, not yet reverted
  calling_class,    \* FALSE when calling_class is None
  results           \* rows of the results written so far

vars == << pc, n_eq, n_ineq, max_iter, tol, x0, x, z, lam, mu, gamma, error,
           iter_counter, converged, z_inv, mu_diag, error_evolution, ret,
           dx, dz, dmu, dlam, rec, eval_calls, solve_calls, solve_failed,
           verbose, printed, other, active, eval_at, fpc, fargs, fres,
           cpc, ic, groups, status, calling_class, results >>

helper == << fpc, fargs, fres >>

args == << n_eq, n_ineq, max_iter, tol, x0, verbose >>

sched == << other, active >>

nca == << cpc, ic, groups, status, calling_class, results >>

\* No call of nonlinear_contingency_analysis is under way
NcaOff ==
  /\ cpc = "off" /\ ic = 0 /\ groups = <<>> /\ status = <<>>
  /\ calling_class = FALSE /\ results = {}

\* the error started at 0
InitialError_Zero == F(0)

\* error = 1e20 before the first iteration
InitialError == <<MaxInt, 1>>

\* Arguments explored
NEqs == {0, 1}
NIneqs == 0..MaxNIneq
MaxIters == 0..MaxIter
TolVals == {Q(1, 1000000), Q(1, 4)}
X0Vals == {F(0)}

\* Values the evaluator returns
GVals == {F(0), F(1)}
HVals == {F(-1), F(1)}
FxVals == {F(-1), F(0)}
GxVals == {F(0), F(1)}
HxVals == {F(0), F(1)}
FxxVals == {F(-1), F(16)}

\* what func(x, mu, lam, *arg) may return: an IpsFunctionReturn
Bundles(ne, ni) ==
  [ f : {F(0)}, G : Vec(GVals, ne), H : Vec(HVals, ni),
    fx : Vec(FxVals, n_x), Gx : Vec(GxVals, ne), Hx : Vec(HxVals, ni),
    fxx : FxxVals, Gxx : {F(0)}, Hxx : {F(0)} ]

\* ------------------------------------------------------------------------
\* interior_point_solver: the steps of one iteration
\* ------------------------------------------------------------------------
\* the loop test with the cap off by one
LoopCond_OffByOne(conv, it, mi) == ~conv /\ it <= mi

\* while not converged and iter_counter < max_iter
LoopCond(conv, it, mi) == ~conv /\ it < mi

\* M = fxx + Gxx + Hxx + Hx @ z_inv @ mu_diag @ Hx.T
KKT_M(b, zi, md) ==
  FAdd(FAdd(FAdd(b.fxx, b.Gxx), b.Hxx),
       Sum([i \in 1..Len(b.Hx) |->
              SpMul(b.Hx[i], FMul(FMul(zi[i], md[i]), b.Hx[i]))]))

\* N = fx + Hx @ mu + Hx @ z_inv @ (gamma * e + mu * H) + Gx @ lam
Residual_N(b, zi, m, l, g) ==
  FAdd(FAdd(FAdd(b.fx[1], SpRowDot(b.Hx, m)),
            Sum([i \in 1..Len(b.Hx) |->
                   SpMul(b.Hx[i],
                         FMul(zi[i], FAdd(FMul(g, F(1)), FMul(m[i], b.H[i]))))])),
       SpRowDot(b.Gx, l))

\* dz = -H - z - Hx.T @ dx
Calc_dz(b, zz, ddx) ==
  [i \in 1..Len(zz) |->
     FSub(FSub(FNeg(b.H[i]), zz[i]), SpMul(b.Hx[i], ddx[1]))]

\* dmu = -mu + z_inv @ (gamma * e - mu * dz)
Calc_dmu(zi, m, g, ddz) ==
  [i \in 1..Len(m) |->
     FAdd(FNeg(m[i]), FMul(zi[i], FSub(FMul(g, F(1)), FMul(m[i], ddz[i]))))]

\* The one element of a singleton set.  { e(v) : v \in {d} } computes d once
\* and names its value v, as an assignment of the code does.
The(S) == CHOOSE e \in S : TRUE

\* 0.1 * (mu @ z) / n_ineq <= tol, decided without forming the products:
\* it holds when every mu[i] * z[i] is at most 10 * tol, that is when
\* mu[i] <= 10 * tol / z[i] with mu[i] >= 0 and z[i] > 0
BelowFloor(m, zz, ni, t) ==
  /\ ni >= 1 /\ IsFin(t)
  /\ \A i \in 1..Len(m) :
       /\ IsFin(m[i]) /\ IsFin(zz[i])
       /\ FGe(m[i], F(0)) /\ FGt(zz[i], F(0))
       /\ FLe(m[i], FDiv(FMul(F(10), t), zz[i]))

\* gamma = max(0.1 * (mu @ z) / n_ineq, tol).  When mu @ z does not fit the
\* integers of the model but is known to be below the floor, the maximum is
\* tol
BarrierUpdate(m, zz, ni, t) ==
  The({ IF exact # Unrep THEN exact
        ELSE IF BelowFloor(m, zz, ni, t) THEN t ELSE Unrep :
        exact \in {PyMax(FDiv(FMul(Q(1, 10), Dot(m, zz)), F(ni)), t)} })

\* the test made against the tolerance instead of the barrier parameter
ConvTest_AgainstTol(e, g) == FLe(e, tol)

\* converged = error <= gamma
ConvTest(e, g) == FLe(e, g)

\* v += dv * alpha
StepUpdate(v, dv, alpha) == VAdd(v, VScale(dv, alpha))


\* ------------------------------------------------------------------------
\* interior_point_solver: initial state and actions
\* ------------------------------------------------------------------------
\* The state of a call when its while loop is first tested, its dimensions,
\* cap, tolerance and verbosity taken from the given sets
InitCall(NE, NI, MI, TS, VS) ==
  /\ n_eq \in NE
  /\ n_ineq \in NI
  /\ max_iter \in MI
  /\ tol \in TS
  /\ verbose \in VS
  /\ printed = 0
  /\ x0 \in Vec(X0Vals, n_x)
  /\ pc = "loop"
  /\ error = InitialError
  /\ iter_counter = 0
  /\ x = x0
  /\ gamma = F(1)
  /\ lam = Ones(n_eq)
  /\ mu = Ones(n_ineq)
  /\ z = Ones(n_ineq)
  /\ z_inv = diags(VInv(Ones(n_ineq)))
  /\ mu_diag = diags(Ones(n_ineq))
  /\ converged = ConvTest(InitialError, F(1))
  /\ error_evolution = [i \in 1..(max_iter + 1) |->
                          IF i = 1 THEN InitialError ELSE F(0)]
  /\ ret = <<>>
  /\ dx = <<>> /\ dz = <<>> /\ dmu = <<>> /\ dlam = <<>>
  /\ rec = <<>>
  /\ eval_calls = 0
  /\ eval_at = <<>>
  /\ solve_calls = 0
  /\ solve_failed = FALSE

\* One call, with the default verbose = 0
Init ==
  /\ InitCall(NEqs, NIneqs, MaxIters, TolVals, {0})
  /\ other = <<>> /\ active = 1
  /\ fpc = "off" /\ fargs = <<>> /\ fres = <<>>
  /\ NcaOff

\* the caches left as they were before the update
PassTest_StaleCaches(J, ddx, ddlam, ddz, ddmu, alpha_p, alpha_d, nx, nz, nlam, nmu) ==
  The({ [ J |-> J, dx |-> ddx, dlam |-> ddlam, dz |-> ddz, dmu |-> ddmu,
          alpha_p |-> alpha_p, alpha_d |-> alpha_d,
          x |-> nx, z |-> nz, lam |-> nlam, mu |-> nmu,
          gamma |-> ngamma, error |-> nerror,
          z_inv |-> z_inv, mu_diag |-> mu_diag,
          converged |-> ConvTest(nerror, ngamma) ] :
        ngamma \in {BarrierUpdate(nmu, nz, n_ineq, tol)},
        nerror \in {calc_error(ddx, ddz, ddmu, ddlam)} })

\* Lines 272 to 280: the barrier parameter, the error, the caches and the
\* convergence test, after the update to nx, nz, nlam, nmu
PassTest(J, ddx, ddlam, ddz, ddmu, alpha_p, alpha_d, nx, nz, nlam, nmu) ==
  The({ [ J |-> J, dx |-> ddx, dlam |-> ddlam, dz |-> ddz, dmu |-> ddmu,
          alpha_p |-> alpha_p, alpha_d |-> alpha_d,
          x |-> nx, z |-> nz, lam |-> nlam, mu |-> nmu,
          gamma |-> ngamma, error |-> nerror,
          z_inv |-> diags(VInv(nz)), mu_diag |-> diags(nmu),
          converged |-> ConvTest(nerror, ngamma) ] :
        ngamma \in {BarrierUpdate(nmu, nz, n_ineq, tol)},
        nerror \in {calc_error(ddx, ddz, ddmu, ddlam)} })

\* Lines 268 to 271: the update of x, z, lam, mu
PassUpdate(J, ddx, ddlam, ddz, ddmu, alpha_p, alpha_d) ==
  The({ PassTest(J, ddx, ddlam, ddz, ddmu, alpha_p, alpha_d, nx, nz, nlam, nmu) :
        nx \in {StepUpdate(x, ddx, alpha_p)},
        nz \in {StepUpdate(z, ddz, alpha_p)},
        nlam \in {StepUpdate(lam, ddlam, alpha_d)},
        nmu \in {StepUpdate(mu, ddmu, alpha_d)} })

\* one step length, that of (z, dz), for the four updates
PassStep_OneLength(J, ddx, ddlam, ddz, ddmu) ==
  The({ PassUpdate(J, ddx, ddlam, ddz, ddmu, alpha_p, alpha_p) :
        alpha_p \in {step_calculation(z, ddz)} })

\* Lines 264 and 265: the step lengths
PassStep(J, ddx, ddlam, ddz, ddmu) ==
  The({ PassUpdate(J, ddx, ddlam, ddz, ddmu, alpha_p, alpha_d) :
        alpha_p \in {step_calculation(z, ddz)},
        alpha_d \in {step_calculation(mu, ddmu)} })

\* Lines 260 and 261: the increments of the slacks and of their multipliers
PassIneq(b, J, ddx, ddlam) ==
  The({ The({ PassStep(J, ddx, ddlam, ddz, ddmu) :
              ddmu \in {Calc_dmu(z_inv, mu, gamma, ddz)} }) :
        ddz \in {Calc_dz(b, z, ddx)} })

\* Line 255: the linear solve, split into dx and dlam
PassSolve(b, J, r) ==
  The({ PassIneq(b, J, sol[1], sol[2]) : sol \in {split(spsolve(J, r), n_x)} })

\* the pass with the error compared with the gamma of before the pass
Pass_TestsOldGamma(b) ==
  The({ [p EXCEPT !.converged = ConvTest(p.error, gamma)] :
        p \in { The({ PassSolve(b, J, r) :
                      J \in {pack_3_by_4(KKT_M(b, z_inv, mu_diag), b.Gx, b.Gx)},
                      r \in {VNeg(<<Residual_N(b, z_inv, mu, lam, gamma)>> \o b.G)} }) } })

\* The values one pass of the loop body computes from the bundle b
\* (lines 247 to 280)
Pass(b) ==
  The({ PassSolve(b, J, r) :
        J \in {pack_3_by_4(KKT_M(b, z_inv, mu_diag), b.Gx, b.Gx)},
        r \in {VNeg(<<Residual_N(b, z_inv, mu, lam, gamma)>> \o b.G)} })

\* Every value of the pass fits the integers of the model
Representable(p) ==
  /\ ~HasUnrep(p.dx \o p.dlam \o p.dz \o p.dmu)
  /\ ~HasUnrep(p.x \o p.z \o p.lam \o p.mu \o p.z_inv)
  /\ ~HasUnrep(<<p.alpha_p, p.alpha_d, p.gamma, p.error>>)

\* the levels the tests verbose > 0, verbose > 1, verbose > 2 tell apart
VerboseLevels == 0..3

\* print calls of lines 282 to 293 in one pass
PassPrints(v) == IF v > 2 THEN 6 ELSE IF v > 1 THEN 3 ELSE 0

\* print calls of lines 302 to 309 before the return
ExitPrints(v) == IF v > 0 THEN 7 ELSE 0

\* the dump of verbose > 2 built in the solver's own x
VerboseBlock_Rebinds(p, v) == IF v > 2 THEN [p EXCEPT !.x = p.dx] ELSE p

\* Lines 282 to 293 applied to the values p of the pass: the block reads
\* x, dx, lam, dlam, mu, z, dmu, dz, gamma, error and iter_counter, binds
\* only the names x_df, eq_df, ineq_df and prints; no value of p changes
VerboseBlock(p, v) == p

\* func called after the update of the pass, at the values p holds
EvalPoint_AfterUpdate(p) == << p.x, p.mu, p.lam >>

\* Line 244: the x, mu, lam handed to func.  The call is the first statement
\* of the pass, so they are the values before the updates that give p
EvalPoint(p) == << x, mu, lam >>

\* the trace written at the index of the pass before the counter is raised
TraceWrite_BeforeIncrement(ee, it, e) == [ee EXCEPT ![it + 1] = e]

\* Lines 296 and 298: iter_counter += 1, then error_evolution[iter_counter] =
\* error; `it` is the counter before the increment and the sequence holds
\* the array's entry j at position j + 1
TraceWrite(ee, it, e) == [ee EXCEPT ![(it + 1) + 1] = e]

\* x bound to the caller's array: the update of x is an update of x0
CallerX0_Aliased(xv, nx) == nx

\* The caller's array x0 after x += dx * alpha_p has made x the vector nx:
\* x is the copy of line 226, so the array of the caller keeps its values
CallerX0(xv, nx) == xv

\* One pass of the while loop (lines 241 to 298)
Iterate ==
  /\ pc = "loop"
  /\ LoopCond(converged, iter_counter, max_iter)
  /\ \E b \in Bundles(n_eq, n_ineq) :
       \E p \in {VerboseBlock(Pass(b), verbose)} :
          /\ Representable(p)
          /\ x0' = CallerX0(x0, p.x)
          /\ ret' = <<b>>
          /\ eval_at' = EvalPoint(p)
          /\ eval_calls' = eval_calls + 1
          /\ solve_calls' = solve_calls + 1
          /\ solve_failed' = (solve_failed \/ SolveFails(p.J))
          /\ dx' = p.dx /\ dlam' = p.dlam /\ dz' = p.dz /\ dmu' = p.dmu
          /\ x' = p.x /\ z' = p.z /\ lam' = p.lam /\ mu' = p.mu
          /\ gamma' = p.gamma
          /\ error' = p.error
          /\ z_inv' = p.z_inv /\ mu_diag' = p.mu_diag
          /\ converged' = p.converged
          /\ iter_counter' = iter_counter + 1
          /\ error_evolution' = TraceWrite(error_evolution, iter_counter, p.error)
  /\ printed' = printed + PassPrints(verbose)
  /\ UNCHANGED << pc, rec, n_eq, n_ineq, max_iter, tol, verbose, helper, sched, nca >>

\* the record of a run that ends at the cap reported as not converged
Solution_CapWins ==
  [ x |-> x, error |-> error, gamma |-> gamma, lam |-> lam,
    structs |-> ret[1], converged |-> (converged /\ iter_counter < max_iter),
    iterations |-> iter_counter, error_evolution |-> error_evolution ]

\* The value of the return statement
Solution ==
  [ x |-> x, error |-> error, gamma |-> gamma, lam |-> lam,
    structs |-> ret[1], converged |-> converged,
    iterations |-> iter_counter, error_evolution |-> error_evolution ]

\* The return that raises when the loop ended without convergence
Return_RaisesOnNonConvergence ==
  /\ pc = "loop"
  /\ ~LoopCond(converged, iter_counter, max_iter)
  /\ IF Len(ret) = 0 \/ ~converged
     THEN pc' = "raised" /\ rec' = rec
     ELSE pc' = "returned" /\ rec' = <<Solution>>
  /\ printed' = printed + ExitPrints(verbose)
  /\ UNCHANGED << args, x, z, lam, mu, gamma, error, iter_counter, converged,
                  z_inv, mu_diag, error_evolution, ret, dx, dz, dmu, dlam,
                  eval_calls, solve_calls, solve_failed, eval_at, helper, sched, nca >>

\* The loop is left and the call ends (lines 300 to 312): naming ret while
\* no pass has bound it raises UnboundLocalError
Return ==
  /\ pc = "loop"
  /\ ~LoopCond(converged, iter_counter, max_iter)
  /\ IF Len(ret) = 0
     THEN pc' = "raised" /\ rec' = rec
     ELSE pc' = "returned" /\ rec' = <<Solution>>
  /\ printed' = printed + ExitPrints(verbose)
  /\ UNCHANGED << args, x, z, lam, mu, gamma, error, iter_counter, converged,
                  z_inv, mu_diag, error_evolution, ret, dx, dz, dmu, dlam,
                  eval_calls, solve_calls, solve_failed, eval_at, helper, sched, nca >>

Next == Iterate \/ Return

Spec == Init /\ [][Next]_vars

\* ------------------------------------------------------------------------
\* Two calls of interior_point_solver with their passes interleaved.  All the
\* state of a call is in names local to the function (lines 222 to 240 and
\* the loop body); the variables hold the locals of the call that is
\* running and `other` those of the call that is not.
\* ------------------------------------------------------------------------
\* the locals of the running call
Locals ==
  [ pc |-> pc, n_eq |-> n_eq, n_ineq |-> n_ineq, max_iter |-> max_iter,
    tol |-> tol, x0 |-> x0, verbose |-> verbose, x |-> x, z |-> z,
    lam |-> lam, mu |-> mu, gamma |-> gamma, error |-> error,
    iter_counter |-> iter_counter, converged |-> converged, z_inv |-> z_inv,
    mu_diag |-> mu_diag, error_evolution |-> error_evolution, ret |-> ret,
    dx |-> dx, dz |-> dz, dmu |-> dmu, dlam |-> dlam, rec |-> rec,
    eval_calls |-> eval_calls, solve_calls |-> solve_calls,
    solve_failed |-> solve_failed, printed |-> printed, eval_at |-> eval_at ]

\* the locals of a call when its while loop is first tested
InitLocals(ne, ni, mi, t, xv, v) ==
  [ pc |-> "loop", n_eq |-> ne, n_ineq |-> ni, max_iter |-> mi, tol |-> t,
    x0 |-> xv, verbose |-> v, x |-> xv, z |-> Ones(ni), lam |-> Ones(ne),
    mu |-> Ones(ni), gamma |-> F(1), error |-> InitialError,
    iter_counter |-> 0, converged |-> ConvTest(InitialError, F(1)),
    z_inv |-> diags(VInv(Ones(ni))), mu_diag |-> diags(Ones(ni)),
    error_evolution |-> [i \in 1..(mi + 1) |-> IF i = 1 THEN InitialError ELSE F(0)],
    ret |-> <<>>, dx |-> <<>>, dz |-> <<>>, dmu |-> <<>>, dlam |-> <<>>,
    rec |-> <<>>, eval_calls |-> 0, solve_calls |-> 0,
    solve_failed |-> FALSE, printed |-> 0, eval_at |-> <<>> ]

\* the cached diagonals kept in one place for all calls: the call that
\* resumes finds those the other call left
Switch_SharedCaches ==
  /\ other # <<>>
  /\ other' = Locals
  /\ active' = 3 - active
  /\ pc' = other.pc /\ n_eq' = other.n_eq /\ n_ineq' = other.n_ineq
  /\ max_iter' = other.max_iter /\ tol' = other.tol /\ x0' = other.x0
  /\ verbose' = other.verbose /\ x' = other.x /\ z' = other.z
  /\ lam' = other.lam /\ mu' = other.mu /\ gamma' = other.gamma
  /\ error' = other.error /\ iter_counter' = other.iter_counter
  /\ converged' = other.converged
  /\ error_evolution' = other.error_evolution /\ ret' = other.ret
  /\ dx' = other.dx /\ dz' = other.dz /\ dmu' = other.dmu
  /\ dlam' = other.dlam /\ rec' = other.rec
  /\ eval_calls' = other.eval_calls /\ solve_calls' = other.solve_calls
  /\ solve_failed' = other.solve_failed /\ printed' = other.printed
  /\ eval_at' = other.eval_at
  /\ UNCHANGED << z_inv, mu_diag, helper, nca >>

\* The running call is suspended between two statements of its loop and the
\* other call runs on
Switch ==
  /\ other # <<>>
  /\ other' = Locals
  /\ active' = 3 - active
  /\ pc' = other.pc /\ n_eq' = other.n_eq /\ n_ineq' = other.n_ineq
  /\ max_iter' = other.max_iter /\ tol' = other.tol /\ x0' = other.x0
  /\ verbose' = other.verbose /\ x' = other.x /\ z' = other.z
  /\ lam' = other.lam /\ mu' = other.mu /\ gamma' = other.gamma
  /\ error' = other.error /\ iter_counter' = other.iter_counter
  /\ converged' = other.converged /\ z_inv' = other.z_inv
  /\ mu_diag' = other.mu_diag /\ error_evolution' = other.error_evolution
  /\ ret' = other.ret /\ dx' = other.dx /\ dz' = other.dz
  /\ dmu' = other.dmu /\ dlam' = other.dlam /\ rec' = other.rec
  /\ eval_calls' = other.eval_calls /\ solve_calls' = other.solve_calls
  /\ solve_failed' = other.solve_failed /\ printed' = other.printed
  /\ eval_at' = other.eval_at
  /\ UNCHANGED << helper, nca >>

\* the second call's tolerance and the caps of both
ConcTols == {Q(1, 4)}
ConcIters == 1..MaxIter

\* the first call has one inequality and no equality, the second one
\* equality and no inequality
InitConc ==
  /\ InitCall({0}, {1}, ConcIters, ConcTols, {0})
  /\ active = 1
  /\ other \in { InitLocals(1, 0, mi, t, xv, 0) :
                   mi \in ConcIters, t \in ConcTols, xv \in Vec(X0Vals, n_x) }
  /\ fpc = "off" /\ fargs = <<>> /\ fres = <<>>
  /\ NcaOff

NextConc == Iterate \/ Return \/ Switch

SpecConc == InitConc /\ [][NextConc]_vars

\* ------------------------------------------------------------------------
\* A call of interior_point_solver followed by a second call that is given
\* the same arguments, among them the same array x0
\* ------------------------------------------------------------------------
\* The first call has ended and the function is entered again: lines 222 to
\* 240 bind every local anew.  `other` keeps the locals the ended call left
CallAgain ==
  /\ pc \in {"returned", "raised"}
  /\ active = 1
  /\ active' = 2
  /\ other' = Locals
  /\ \E L \in {InitLocals(n_eq, n_ineq, max_iter, tol, x0, verbose)} :
      /\ pc' = L.pc /\ x' = L.x /\ z' = L.z /\ lam' = L.lam /\ mu' = L.mu
      /\ gamma' = L.gamma /\ error' = L.error
      /\ iter_counter' = L.iter_counter /\ converged' = L.converged
      /\ z_inv' = L.z_inv /\ mu_diag' = L.mu_diag
      /\ error_evolution' = L.error_evolution /\ ret' = L.ret /\ dx' = L.dx
      /\ dz' = L.dz /\ dmu' = L.dmu /\ dlam' = L.dlam /\ rec' = L.rec
      /\ eval_calls' = L.eval_calls /\ solve_calls' = L.solve_calls
      /\ solve_failed' = L.solve_failed /\ printed' = L.printed
      /\ eval_at' = L.eval_at
  /\ UNCHANGED << args, helper, nca >>

AgainIters == 1..MaxIter

InitAgain ==
  /\ InitCall({0}, {1}, AgainIters, ConcTols, {0})
  /\ other = <<>> /\ active = 1
  /\ fpc = "off" /\ fargs = <<>> /\ fres = <<>>
  /\ NcaOff

NextAgain == Iterate \/ Return \/ CallAgain

SpecAgain == InitAgain /\ [][NextAgain]_vars

\* ------------------------------------------------------------------------
\* Calls at every verbosity
\* ------------------------------------------------------------------------
VerboseNIneqs == {0, 1}

InitVerbose ==
  /\ InitCall(NEqs, VerboseNIneqs, MaxIters, TolVals, VerboseLevels)
  /\ other = <<>> /\ active = 1
  /\ fpc = "off" /\ fargs = <<>> /\ fres = <<>>
  /\ NcaOff

SpecVerbose == InitVerbose /\ [][Next]_vars

\* ------------------------------------------------------------------------
\* Calls with a tolerance above the initial barrier parameter.  tol is not
\* validated: any float is accepted.
\* ------------------------------------------------------------------------
LargeTols == {F(2)}

InitLargeTol ==
  /\ InitCall(NEqs, NIneqs, MaxIters, LargeTols, {0})
  /\ other = <<>> /\ active = 1
  /\ fpc = "off" /\ fargs = <<>> /\ fres = <<>>
  /\ NcaOff

SpecLargeTol == InitLargeTol /\ [][Next]_vars

\* ------------------------------------------------------------------------
\* Calls in which the evaluator or the linear solve raises.  Nothing in
\* interior_point_solver catches an exception: it leaves the function at the
\* statement that raised it.
\* ------------------------------------------------------------------------
\* the evaluator's exception caught and the evaluator called again
EvalRaises_Retried ==
  /\ pc = "loop"
  /\ LoopCond(converged, iter_counter, max_iter)
  /\ eval_calls' = eval_calls + 2
  /\ eval_at' = << x, mu, lam >>
  /\ UNCHANGED << pc, args, x, z, lam, mu, gamma, error, iter_counter, converged,
                  z_inv, mu_diag, error_evolution, ret, dx, dz, dmu, dlam,
                  rec, solve_calls, solve_failed, printed, helper, sched, nca >>

\* Line 244: func raises; the statement assigns nothing and the exception
\* leaves the function
EvalRaises ==
  /\ pc = "loop"
  /\ LoopCond(converged, iter_counter, max_iter)
  /\ eval_calls' = eval_calls + 1
  /\ eval_at' = << x, mu, lam >>
  /\ pc' = "eval_raised"
  /\ UNCHANGED << args, x, z, lam, mu, gamma, error, iter_counter, converged,
                  z_inv, mu_diag, error_evolution, ret, dx, dz, dmu, dlam,
                  rec, solve_calls, solve_failed, printed, helper, sched, nca >>

\* Line 255: spsolve meets an exactly singular J while the warnings filter of
\* the process turns its MatrixRankWarning into an exception; ret is bound
\* (line 244 was executed), dx and dlam are not assigned
SolveRaises ==
  /\ pc = "loop"
  /\ LoopCond(converged, iter_counter, max_iter)
  /\ \E b \in Bundles(n_eq, n_ineq) :
       /\ SolveFails(pack_3_by_4(KKT_M(b, z_inv, mu_diag), b.Gx, b.Gx))
       /\ ret' = <<b>>
  /\ eval_calls' = eval_calls + 1
  /\ eval_at' = << x, mu, lam >>
  /\ solve_calls' = solve_calls + 1
  /\ solve_failed' = TRUE
  /\ pc' = "solve_raised"
  /\ UNCHANGED << args, x, z, lam, mu, gamma, error, iter_counter, converged,
                  z_inv, mu_diag, error_evolution, dx, dz, dmu, dlam,
                  rec, printed, helper, sched, nca >>

NextFail == Iterate \/ Return \/ EvalRaises \/ SolveRaises

SpecFail == Init /\ [][NextFail]_vars

\* ------------------------------------------------------------------------
\* Properties of interior_point_solver
\* ------------------------------------------------------------------------
Left == pc # "loop"
Finite(v) == \A i \in 1..Len(v) : IsFin(v[i])

\* C1: after the update of every iteration every slack is > 0 and every
\* inequality multiplier is >= 0.
C1_Positivity ==
  \A i \in 1..n_ineq : FGt(z[i], F(0)) /\ FGe(mu[i], F(0))

\* The same, in the runs where no linear solve met a singular matrix.
C1_PositivityWhileSolvable ==
  ~solve_failed => C1_Positivity

\* C2: in every state the barrier parameter is at least tol.
C2_GammaFloor == FGe(gamma, tol)

\* C3: the loop is left after at most max_iter passes, converged or with
\* the cap reached, and no pass is made after that.  Until it is left
\* every step either leaves the loop or adds one to iter_counter, which never
\* exceeds max_iter, so at most max_iter passes separate Init from the exit.
C3_Termination ==
  /\ [](iter_counter <= max_iter /\ eval_calls <= max_iter)
  /\ [](Left => (converged \/ iter_counter = max_iter))
  /\ [](pc = "returned" => rec[1].iterations <= max_iter)
  /\ [][ /\ ~Left => (Left' \/ iter_counter' = iter_counter + 1)
         /\ Left => (pc' = pc /\ iter_counter' = iter_counter
                     /\ eval_calls' = eval_calls) ]_vars

C3_Witness ==
  /\ pc = "returned" /\ ~rec[1].converged
  /\ rec[1].iterations = max_iter /\ max_iter = 2
  /\ ~solve_failed /\ n_ineq >= 1

\* C4: for max_iter >= 1, a run in which no pass met error <= gamma returns
\* (raises nothing) a record with converged = False, iterations = max_iter.
C4_NonConvergenceReturns ==
  (Left /\ max_iter >= 1 /\ ~converged)
    => (pc = "returned" /\ rec[1].converged = FALSE
        /\ rec[1].iterations = max_iter)

C4_Witness ==
  /\ pc = "returned" /\ max_iter >= 1 /\ rec[1].converged = FALSE
  /\ ~solve_failed /\ n_ineq >= 1 /\ IsFin(rec[1].gamma)

\* C5: the converged flag of the record is true exactly when the record's
\* error is <= the record's gamma; the error is the max-norm of the last
\* increments and gamma the barrier parameter of that same pass.
C5_ConvergedFlag ==
  pc = "returned" =>
    /\ rec[1].converged = FLe(rec[1].error, rec[1].gamma)
    /\ rec[1].error = calc_error(dx, dz, dmu, dlam)
    /\ rec[1].gamma = BarrierUpdate(mu, z, n_ineq, tol)

C5_Witness ==
  /\ pc = "returned" /\ rec[1].converged /\ ~solve_failed
  /\ FGt(rec[1].error, tol) /\ FLe(rec[1].error, rec[1].gamma)

\* C6: a failed linear solve ends the call with a solver-failure error,
\* before x, z, lam, mu are updated and without any further iteration.
C6_SolveFailureSurfaced ==
  solve_failed => pc = "solver-failure"

\* C7: a record reported as converged comes from valid Newton steps only
\* and holds finite x and lam.
C7_NoGarbageConverged ==
  (pc = "returned" /\ rec[1].converged)
    => (~solve_failed /\ Finite(rec[1].x) /\ Finite(rec[1].lam))

\* C8: without inequalities the barrier update divides by nothing and
\* leaves gamma at tol.
C8_NoIneqGammaIsTol ==
  (n_ineq = 0 /\ iter_counter >= 1) => gamma = tol

\* C9: without inequalities, a run whose last increments dx, dlam are within
\* tol in max-norm returns converged = True.
C9_NoIneqConverges ==
  (pc = "returned" /\ n_ineq = 0 /\ Finite(dx \o dlam)
     /\ FLe(calc_error(dx, dz, dmu, dlam), tol))
    => rec[1].converged

\* C13: the returned error_evolution has max_iter + 1 entries; entry 0 is the
\* initial error, entry j (1 <= j <= iterations) is the error computed in
\* pass j, so entry `iterations` is the returned error, and the entries after
\* it are 0.  Pass j writes entry j only, and nothing writes after the exit.
C13_TraceLayout ==
  /\ [](pc = "returned" =>
         /\ rec[1].error_evolution = error_evolution
         /\ Len(rec[1].error_evolution) = max_iter + 1
         /\ rec[1].error_evolution[1] = InitialError
         /\ rec[1].iterations >= 1
         /\ rec[1].error_evolution[rec[1].iterations + 1] = rec[1].error
         /\ \A j \in (rec[1].iterations + 2)..(max_iter + 1) :
              rec[1].error_evolution[j] = F(0))
  /\ [][ /\ iter_counter' # iter_counter =>
              /\ iter_counter' = iter_counter + 1
              /\ error_evolution'[iter_counter' + 1] = error'
              /\ \A j \in 1..Len(error_evolution) :
                   j # iter_counter' + 1 => error_evolution'[j] = error_evolution[j]
              /\ Len(error_evolution') = Len(error_evolution)
         /\ iter_counter' = iter_counter => error_evolution' = error_evolution
       ]_vars

C13_Witness ==
  /\ pc = "returned" /\ max_iter = 2 /\ rec[1].iterations = 1
  /\ rec[1].error_evolution[2] = rec[1].error /\ rec[1].error # F(0)
  /\ rec[1].error_evolution[3] = F(0)

\* ------------------------------------------------------------------------
\* Evaluators that return a bundle whose dimensions do not fit the call.
\* interior_point_solver never compares a shape with n_x, n_eq or n_ineq;
\* what happens is what numpy and scipy do with the arrays.
\* ------------------------------------------------------------------------
\* some vector of the bundle has not the length the call's dimensions ask for
Mismatched(b) ==
  \/ Len(b.fx) # n_x \/ Len(b.G) # n_eq \/ Len(b.Gx) # n_eq
  \/ Len(b.H) # n_ineq \/ Len(b.Hx) # n_ineq

\* bundles with a gradient fx one entry too long and no G, and bundles with
\* a G one entry too long
MismatchedBundles(ne, ni) ==
  { [b EXCEPT !.fx = <<b.fx[1], e>>, !.G = <<>>] :
      b \in Bundles(ne, ni), e \in FxVals }
  \cup { [b EXCEPT !.G = b.G \o <<F(1)>>] : b \in Bundles(ne, ni) }

\* the length of r = -np.r_[N, G]: with n_x = 1 every term added to fx in N
\* has length 1 and is broadcast, so N has the length of fx
RhsLength(b) == Len(b.fx) + Len(b.G)

\* spsolve(J, r) raises ValueError unless r has as many entries as J has rows
SolveAccepts(b) == RhsLength(b) = n_x + n_eq

\* What the pass reads from a bundle with fx = [fx1, fx2] and G = [] when
\* n_eq = 1: N = [fx1 + s, fx2 + s] with s the broadcast sum of the other
\* terms of N, so r = -[fx1 + s, fx2 + s], the r of a bundle with
\* fx = [fx1] and G = [fx2 + s]
AsRead(b) ==
  [b EXCEPT !.fx = <<b.fx[1]>>,
            !.G = <<FAdd(b.fx[2],
                         Residual_N([b EXCEPT !.fx = <<F(0)>>],
                                    z_inv, mu, lam, gamma))>>]

\* One pass of the while loop on a mismatched bundle that spsolve accepts
IterateMismatched ==
  /\ pc = "loop"
  /\ LoopCond(converged, iter_counter, max_iter)
  /\ \E b \in MismatchedBundles(n_eq, n_ineq) :
       /\ SolveAccepts(b)
       /\ \E p \in {VerboseBlock(Pass(AsRead(b)), verbose)} :
          /\ Representable(p)
          /\ ret' = <<b>>
          /\ eval_at' = EvalPoint(p)
          /\ eval_calls' = eval_calls + 1
          /\ solve_calls' = solve_calls + 1
          /\ solve_failed' = (solve_failed \/ SolveFails(p.J))
          /\ dx' = p.dx /\ dlam' = p.dlam /\ dz' = p.dz /\ dmu' = p.dmu
          /\ x' = p.x /\ z' = p.z /\ lam' = p.lam /\ mu' = p.mu
          /\ gamma' = p.gamma
          /\ error' = p.error
          /\ z_inv' = p.z_inv /\ mu_diag' = p.mu_diag
          /\ converged' = p.converged
          /\ iter_counter' = iter_counter + 1
          /\ error_evolution' = TraceWrite(error_evolution, iter_counter, p.error)
  /\ printed' = printed + PassPrints(verbose)
  /\ UNCHANGED << pc, rec, args, helper, sched, nca >>

\* Line 255 on a mismatched bundle that spsolve refuses: ValueError leaves
\* the function before dx and dlam are assigned
MismatchRaises ==
  /\ pc = "loop"
  /\ LoopCond(converged, iter_counter, max_iter)
  /\ \E b \in MismatchedBundles(n_eq, n_ineq) :
       /\ ~SolveAccepts(b)
       /\ ret' = <<b>>
  /\ eval_calls' = eval_calls + 1
  /\ eval_at' = << x, mu, lam >>
  /\ solve_calls' = solve_calls + 1
  /\ pc' = "shape_raised"
  /\ UNCHANGED << args, x, z, lam, mu, gamma, error, iter_counter, converged,
                  z_inv, mu_diag, error_evolution, dx, dz, dmu, dlam,
                  rec, solve_failed, printed, helper, sched, nca >>

NextContract == Iterate \/ Return \/ IterateMismatched \/ MismatchRaises

SpecContract == Init /\ [][NextContract]_vars

\* C17: a pass whose bundle does not fit (n_x, n_eq, n_ineq) ends the call
\* with a reported failure: none of x, z, lam, mu, gamma is updated from the
\* bundle, the counter is not raised and the evaluator is not called again.
C17_MismatchReported ==
  /\ []((Len(ret) = 1 /\ Mismatched(ret[1])) => pc = "shape_raised")
  /\ [][ (Len(ret') = 1 /\ Mismatched(ret'[1]) /\ eval_calls' # eval_calls) =>
            /\ pc' = "shape_raised"
            /\ UNCHANGED << x, z, lam, mu, gamma, iter_counter >> ]_vars
  /\ [][ pc = "shape_raised" => UNCHANGED vars ]_vars

\* What the code does: the mismatches that spsolve refuses end the call
\* before any update, the others are used as if they fitted
C17_OnlySolveRefusals ==
  /\ [](pc = "shape_raised" => (Len(ret) = 1 /\ ~SolveAccepts(ret[1])))
  /\ [][ (Len(ret') = 1 /\ ~SolveAccepts(ret'[1]) /\ eval_calls' # eval_calls) =>
            /\ pc' = "shape_raised"
            /\ UNCHANGED << x, z, lam, mu, gamma, iter_counter >> ]_vars

\* a mismatched bundle went through a whole pass
C17_SilentPass ==
  /\ Len(ret) = 1 /\ Mismatched(ret[1]) /\ pc = "returned"
  /\ ~solve_failed /\ rec[1].x # x0

\* C15: a call at any verbose level goes through the states of the call at
\* verbose = 0 that has the same arguments and evaluator outputs.  Both start
\* in the same state; from a common state and on the same evaluator output
\* the pass at the call's level gives the x, z, lam, mu, gamma, error,
\* iter_counter (and converged, caches and trace) of the pass at level 0;
\* the loop is left in the same states, with the same record or the same
\* exception; only the number of print calls differs.
C15_VerboseNoEffect ==
  /\ [][ (pc = "loop" /\ eval_calls' # eval_calls) =>
           \E q \in {VerboseBlock(Pass(ret'[1]), 0)} :
              /\ x' = q.x /\ z' = q.z /\ lam' = q.lam /\ mu' = q.mu
              /\ gamma' = q.gamma /\ error' = q.error
              /\ iter_counter' = iter_counter + 1
              /\ converged' = q.converged
              /\ z_inv' = q.z_inv /\ mu_diag' = q.mu_diag
              /\ error_evolution' = TraceWrite(error_evolution, iter_counter, q.error)
              /\ pc' = "loop" ]_vars
  /\ [][ (pc = "loop" /\ pc' # "loop") =>
           /\ ~LoopCond(converged, iter_counter, max_iter)
           /\ pc' = (IF Len(ret) = 0 THEN "raised" ELSE "returned")
           /\ pc' = "returned" => rec' = <<Solution>>
           /\ UNCHANGED << x, z, lam, mu, gamma, error, iter_counter >> ]_vars
  /\ [](printed = iter_counter * PassPrints(verbose)
                    + (IF pc = "loop" THEN 0 ELSE ExitPrints(verbose)))

C15_Witness ==
  /\ pc = "returned" /\ verbose = 3 /\ rec[1].iterations = 2
  /\ printed = 19 /\ n_ineq = 1 /\ ~solve_failed

\* InitLocals is the state InitCall describes
InitLocalsAgree ==
  (pc = "loop" /\ eval_calls = 0) =>
    Locals = InitLocals(n_eq, n_ineq, max_iter, tol, x0, verbose)

\* the solver state of a call held in a record of locals
SolverState(L) ==
  << L.x, L.z, L.lam, L.mu, L.gamma, L.error, L.iter_counter,
     L.error_evolution, L.z_inv, L.mu_diag, L.converged, L.rec, L.pc >>

\* C16: two calls with interleaved passes do not share solver state.  A step
\* of the running call leaves the x, z, lam, mu, gamma, error, iter_counter,
\* error_evolution and cached diagonals of the other call as they are; when
\* the calls change places each finds its own values again; so each call
\* makes the steps it makes alone and returns the record built from its own
\* state, its caches being those of its own z and mu.
C16_CallsIndependent ==
  /\ [][ active' = active => other' = other ]_vars
  /\ [][ active' # active =>
           /\ SolverState(other') = SolverState(Locals)
           /\ SolverState(Locals') = SolverState(other) ]_vars
  /\ [](pc = "returned" => rec[1] = Solution)
  /\ [](other.pc = "returned" =>
          /\ other.rec[1].x = other.x /\ other.rec[1].lam = other.lam
          /\ other.rec[1].gamma = other.gamma /\ other.rec[1].error = other.error
          /\ other.rec[1].iterations = other.iter_counter
          /\ other.rec[1].error_evolution = other.error_evolution)
  /\ [](z_inv = diags(VInv(z)) /\ mu_diag = diags(mu))
  /\ [](other.z_inv = diags(VInv(other.z)) /\ other.mu_diag = diags(other.mu))

\* both calls are between two passes: the second is running after its first
\* pass while the first is suspended after its own first pass
C16_Witness ==
  /\ active = 2 /\ pc = "loop" /\ iter_counter = 1 /\ max_iter = 2
  /\ other.pc = "loop" /\ other.iter_counter = 1 /\ other.max_iter = 2
  /\ ~other.converged /\ ~other.solve_failed /\ ~solve_failed

\* the call was left by an exception of the evaluator or of the solve
Propagated == pc \in {"eval_raised", "solve_raised"}

\* C14: every pass calls the evaluator once and solves once, so a returned
\* record's iterations equals the number of evaluator calls and of solves; an
\* exception of the evaluator or of the solve ends the call at once: the
\* failed pass is counted once, updates nothing, and no step follows it.
C14_NoRetry ==
  /\ [](eval_calls = iter_counter
            + (IF Propagated THEN 1 ELSE 0))
  /\ [](solve_calls = iter_counter
            + (IF pc = "solve_raised" THEN 1 ELSE 0))
  /\ [](pc = "returned" =>
          (eval_calls = rec[1].iterations /\ solve_calls = rec[1].iterations))
  /\ [][ /\ eval_calls' <= eval_calls + 1 /\ solve_calls' <= solve_calls + 1
         /\ Propagated' =>
              UNCHANGED << x, z, lam, mu, gamma, error, iter_counter, converged,
                           z_inv, mu_diag, error_evolution, rec >>
         /\ Propagated => UNCHANGED vars ]_vars

C14_Witness ==
  /\ pc = "solve_raised" /\ iter_counter = 1 /\ eval_calls = 2 /\ solve_calls = 2
  /\ n_ineq >= 1

C14_WitnessEval == pc = "eval_raised" /\ iter_counter = 1 /\ eval_calls = 2

\* C19: with max_iter = 0 the call ends with a returned record that has
\* converged = False, iterations = 0, x = x0 and the initial error, and the
\* evaluator was never called.
C19_ZeroIterationsReturns ==
  (Left /\ max_iter = 0) =>
    /\ pc = "returned"
    /\ rec[1].converged = FALSE /\ rec[1].iterations = 0
    /\ rec[1].x = x0 /\ rec[1].error = InitialError
    /\ eval_calls = 0

\* What the code does with max_iter = 0: no pass, no evaluator call, no
\* record; the return statement raises on the unbound name ret
C19_ZeroIterationsRaises ==
  (Left /\ max_iter = 0) =>
    (pc = "raised" /\ rec = <<>> /\ eval_calls = 0 /\ x = x0 /\ error = InitialError)

\* C20: the pass in which convergence is detected does not raise the counter:
\* a converged record counts one iteration less than the passes made, and a
\* call that converges on its first pass returns iterations = 0.
C20_CounterProtocol ==
  (pc = "returned" /\ rec[1].converged) =>
    /\ rec[1].iterations = eval_calls - 1
    /\ eval_calls = 1 => rec[1].iterations = 0

\* What the code does: every pass raises the counter, the converging one too
C20_CounterCountsPasses == iter_counter = eval_calls

\* ------------------------------------------------------------------------
\* step_calculation called alone
\* ------------------------------------------------------------------------
StepVVals == {F(1), F(2), Q(1, 2)}
StepDVVals == {F(-4), F(-1), Q(-1, 2), F(0), F(1)}
\* arguments with no decreasing component: V of any sign, or not a number
StepAnyVVals == {F(-1), F(0), F(1), NaN}
StepNonNegDVVals == {F(0), F(1)}

\* No call of interior_point_solver is under way
Idle ==
  /\ pc = "idle"
  /\ n_eq = 0 /\ n_ineq = 0 /\ max_iter = 0 /\ tol = F(0) /\ x0 = <<>>
  /\ x = <<>> /\ z = <<>> /\ lam = <<>> /\ mu = <<>>
  /\ gamma = F(0) /\ error = F(0) /\ iter_counter = 0 /\ converged = FALSE
  /\ z_inv = <<>> /\ mu_diag = <<>> /\ error_evolution = <<>>
  /\ ret = <<>> /\ dx = <<>> /\ dz = <<>> /\ dmu = <<>> /\ dlam = <<>>
  /\ rec = <<>> /\ eval_calls = 0 /\ solve_calls = 0 /\ solve_failed = FALSE
  /\ verbose = 0 /\ printed = 0 /\ other = <<>> /\ active = 1
  /\ eval_at = <<>>

InitStep ==
  /\ Idle
  /\ NcaOff
  /\ fpc = "call"
  /\ \E n \in 0..MaxLen :
       fargs \in { <<V, dV>> : V \in Vec(StepVVals, n), dV \in Vec(StepDVVals, n) }
                 \cup { <<V, dV>> : V \in Vec(StepAnyVVals, n),
                                     dV \in Vec(StepNonNegDVVals, n) }
  /\ fres = <<>>

CallStep ==
  /\ fpc = "call"
  /\ fres' = <<step_calculation(fargs[1], fargs[2])>>
  /\ fpc' = "done"
  /\ UNCHANGED << fargs, pc, args, x, z, lam, mu, gamma, error, iter_counter,
                  converged, z_inv, mu_diag, error_evolution, ret, dx, dz,
                  dmu, dlam, rec, eval_calls, solve_calls, solve_failed,
                  printed, sched, eval_at, nca >>

SpecStep == InitStep /\ [][CallStep]_vars

\* the ratios -V[i] / dV[i] of the components with dV[i] < 0
Ratios(V, dV) ==
  { FDiv(FNeg(V[i]), dV[i]) : i \in { j \in 1..Len(V) : FLt(dV[j], F(0)) } }

\* the least of them, 1.0 when there is none
MinRatio(V, dV) ==
  IF Ratios(V, dV) = {} THEN F(1)
  ELSE CHOOSE m \in Ratios(V, dV) : \A r \in Ratios(V, dV) : FLe(m, r)

\* C10: step_calculation(V, dV) = min(1.0, 0.9999995 * m), m the least ratio
\* -V[i] / dV[i] over the components with dV[i] < 0 (1.0 when there is none).
C10_FractionToBoundary ==
  fpc = "done" =>
    fres[1] = PyMin(F(1), FMul(SafetyFactor, MinRatio(fargs[1], fargs[2])))

\* What the code returns: the ratio is capped at 1.0 before it is scaled.
StepAsCoded ==
  fpc = "done" =>
    fres[1] = FMul(SafetyFactor, PyMin(F(1), MinRatio(fargs[1], fargs[2])))
\* C11: when dV is empty or has no component below 0, the step bound is 1.0
\* whatever V holds, and step_calculation returns 0.9999995 * 1.0.
C11_NonNegativeStep ==
  (fpc = "done" /\ \A i \in 1..Len(fargs[2]) : FGe(fargs[2][i], F(0))) =>
    fres[1] = FMul(SafetyFactor, F(1))

C11_Witness ==
  /\ fpc = "done" /\ Len(fargs[2]) = 2
  /\ fargs[2][1] = F(0) /\ fargs[2][2] = F(1)
  /\ fargs[1][1] = F(-1) /\ fargs[1][2] = NaN
  /\ fres[1] = SafetyFactor

C11_WitnessEmpty == fpc = "done" /\ Len(fargs[2]) = 0 /\ fres[1] = SafetyFactor
\* ------------------------------------------------------------------------
\* calc_error called alone
\* ------------------------------------------------------------------------
\* components of the increments: the values of the worked example
\* (0.1, -0.2, 0.05, 0.3, -0.4) and not-a-number
ErrVals == {Q(1, 10), Q(-1, 5), Q(1, 20), Q(3, 10), Q(-2, 5), NaN}

\* dx of any length, dz and dmu of one length, dlmbda of its own
InitErr ==
  /\ Idle
  /\ NcaOff
  /\ fpc = "call_err"
  /\ \E nx \in 0..MaxLen, ni \in NIneqs, ne \in NEqs :
       fargs \in { <<a, b, c, d>> : a \in Vec(ErrVals, nx), b \in Vec(ErrVals, ni),
                                    c \in Vec(ErrVals, ni), d \in Vec(ErrVals, ne) }
  /\ fres = <<>>

CallErr ==
  /\ fpc = "call_err"
  /\ fres' = <<calc_error(fargs[1], fargs[2], fargs[3], fargs[4])>>
  /\ fpc' = "done_err"
  /\ UNCHANGED << fargs, pc, args, x, z, lam, mu, gamma, error, iter_counter,
                  converged, z_inv, mu_diag, error_evolution, ret, dx, dz,
                  dmu, dlam, rec, eval_calls, solve_calls, solve_failed,
                  printed, sched, eval_at, nca >>

SpecErr == InitErr /\ [][CallErr]_vars

\* all the components handed to calc_error
ErrComponents == fargs[1] \o fargs[2] \o fargs[3] \o fargs[4]

\* C12: calc_error is the greatest absolute value of the components of the
\* four vectors: 0 when all are empty, at least |c| for every component c,
\* equal to |c| for one of them when there is any, and 0.4 on the example.
C12_MaxAbs ==
  fpc = "done_err" =>
    /\ ErrComponents = <<>> => fres[1] = F(0)
    /\ \A i \in 1..Len(ErrComponents) : FGe(fres[1], FAbs(ErrComponents[i]))
    /\ ErrComponents # <<>> =>
         \E i \in 1..Len(ErrComponents) : fres[1] = FAbs(ErrComponents[i])
    /\ fargs = << <<Q(1, 10), Q(-1, 5)>>, <<Q(1, 20)>>, <<Q(3, 10)>>, <<Q(-2, 5)>> >>
         => fres[1] = Q(2, 5)

\* What the code computes: the same, over the components that are numbers
C12_MaxAbsOfNumbers ==
  fpc = "done_err" =>
    LET nums == { i \in 1..Len(ErrComponents) : ~IsNaN(ErrComponents[i]) }
    IN /\ nums = {} => fres[1] = F(0)
       /\ \A i \in nums : FGe(fres[1], FAbs(ErrComponents[i]))
       /\ nums # {} => \E i \in nums : fres[1] = FAbs(ErrComponents[i])

\* the worked example is one of the calls
C12_Example ==
  /\ fpc = "done_err"
  /\ fargs = << <<Q(1, 10), Q(-1, 5)>>, <<Q(1, 20)>>, <<Q(3, 10)>>, <<Q(-2, 5)>> >>
  /\ fres[1] = Q(2, 5)

\* ------------------------------------------------------------------------
\* Further properties of interior_point_solver
\* ------------------------------------------------------------------------
\* C21: a record returned with converged = True has an error <= tol.
C21_ConvergedWithinTol ==
  (pc = "returned" /\ rec[1].converged) => FLe(rec[1].error, tol)

\* What the code guarantees: the error of a converged record is within the
\* record's gamma, which is tol or more
C21_ConvergedWithinGamma ==
  (pc = "returned" /\ rec[1].converged) =>
    (FLe(rec[1].error, rec[1].gamma) /\ FGe(rec[1].gamma, tol))

\* a converged record of valid steps whose error is above tol
C21_AboveTol ==
  /\ pc = "returned" /\ rec[1].converged /\ ~solve_failed
  /\ FGt(rec[1].error, tol) /\ IsFin(rec[1].error)

\* C22: gamma never grows: after every pass it is at most what it was before
\* the pass, so at most the initial 1.
C22_GammaMonotone ==
  /\ [][ ~FGt(gamma', gamma) ]_vars
  /\ [](~FGt(gamma, F(1)))

\* What the code guarantees: after a pass gamma is the barrier update of the
\* updated mu and z, whatever it was before
C22_GammaRecomputed ==
  [][ eval_calls' # eval_calls /\ pc' = "loop" =>
        gamma' = BarrierUpdate(mu', z', n_ineq, tol) ]_vars

\* gamma above the initial 1 after a pass of valid steps
C22_GammaAboveOne ==
  /\ pc = "returned" /\ ~solve_failed /\ IsFin(rec[1].gamma)
  /\ FGt(rec[1].gamma, F(1))

C24_PassOrdering ==
  /\ [](eval_calls = 0 => gamma = F(1))
  /\ [][ eval_calls' # eval_calls =>
           \E b \in {ret'[1]} :
             /\ dx' \o dlam' =
                  spsolve(pack_3_by_4(KKT_M(b, z_inv, mu_diag), b.Gx, b.Gx),
                          VNeg(<<Residual_N(b, z_inv, mu, lam, gamma)>> \o b.G))
             /\ dz' = Calc_dz(b, z, dx')
             /\ dmu' = Calc_dmu(z_inv, mu, gamma, dz')
             /\ gamma' = BarrierUpdate(mu', z', n_ineq, tol)
             /\ error' = calc_error(dx', dz', dmu', dlam')
             /\ converged' = FLe(error', gamma') ]_vars

\* a second pass of valid steps that found gamma = 0.1, z = mu = 1 and made
\* dz = 0: its dmu = -1 + 1 * (0.1 - 0) is computed with the gamma it found,
\* and it leaves another gamma
C24_Witness ==
  /\ pc = "returned" /\ rec[1].iterations = 2 /\ n_ineq = 1 /\ ~solve_failed
  /\ dz = Zeros(1) /\ dmu = <<FSub(Q(1, 10), F(1))>>
  /\ rec[1].gamma # Q(1, 10) /\ IsFin(rec[1].gamma)

\* C25: in every pass alpha_p = step_calculation(z, dz) scales the updates
\* of x and z and alpha_d = step_calculation(mu, dmu) those of lam and mu,
\* both computed from the z and mu of before the update.
C25_StepApplication ==
  [][ eval_calls' # eval_calls =>
        \E ap \in {step_calculation(z, dz')}, ad \in {step_calculation(mu, dmu')} :
          /\ x' = StepUpdate(x, dx', ap)
          /\ z' = StepUpdate(z, dz', ap)
          /\ lam' = StepUpdate(lam, dlam', ad)
          /\ mu' = StepUpdate(mu, dmu', ad) ]_vars

\* after a first pass (which started from z = mu = 1) whose two step
\* lengths differ and whose four increments are not zero
C25_Witness ==
  /\ iter_counter = 1 /\ n_ineq = 1 /\ n_eq = 1 /\ ~solve_failed
  /\ step_calculation(Ones(1), dz) # step_calculation(Ones(1), dmu)
  /\ dx # Zeros(1) /\ dlam # Zeros(1) /\ dz # Zeros(1) /\ dmu # Zeros(1)

\* C26: each time the loop is tested, so each time a pass assembles M, the
\* cached diagonals are those of the current z and mu.
C26_CacheConsistency ==
  pc = "loop" => (z_inv = diags(VInv(z)) /\ mu_diag = diags(mu))

\* a second pass is about to start with z and mu changed by the first
C26_Witness ==
  /\ pc = "loop" /\ iter_counter = 1 /\ max_iter = 2 /\ ~converged
  /\ n_ineq = 1 /\ ~solve_failed /\ z # Ones(1) /\ mu # Ones(1)

\* C27: no step of a call changes the caller's x0, and nothing of a call
\* outlives it: a second call with the same arguments starts with every
\* local as the first call started, x = x0, lam = mu = z = 1, gamma = 1,
\* error = 1e20, iter_counter = 0, whatever the first call left.
C27_FrameOfTheCall ==
  /\ [][ x0' = x0 ]_vars
  /\ [][ active' # active =>
           /\ Locals' = InitLocals(n_eq, n_ineq, max_iter, tol, x0, verbose)
           /\ UNCHANGED args ]_vars
  /\ []((active = 2 /\ eval_calls = 0) =>
          /\ x = x0 /\ lam = Ones(n_eq) /\ mu = Ones(n_ineq) /\ z = Ones(n_ineq)
          /\ gamma = F(1) /\ error = InitialError /\ iter_counter = 0
          /\ ret = <<>> /\ rec = <<>>)

\* the second call is at its first loop test after a first call of two
\* passes that moved x, z and mu and ended with another gamma
C27_Witness ==
  /\ active = 2 /\ pc = "loop" /\ eval_calls = 0
  /\ other.pc = "returned" /\ other.iter_counter = 2 /\ ~other.solve_failed
  /\ other.x # x0 /\ other.mu # Ones(1) /\ other.gamma # F(1)
  /\ x = x0 /\ gamma = F(1)

\* C28: with max_iter >= 1 the loop is entered: before the first call the
\* state is not converged (error = 1e20 > gamma = 1), the first call of func
\* is given (x0, ones(n_ineq), ones(n_eq)), and a call that ends has made at
\* least one pass and returns iterations >= 1.
C28_AtLeastOnePass ==
  /\ (pc = "loop" /\ eval_calls = 0) => (~converged /\ FGt(error, gamma))
  /\ eval_calls = 1 => eval_at = << x0, Ones(n_ineq), Ones(n_eq) >>
  /\ (Left /\ max_iter >= 1) =>
       (pc = "returned" /\ eval_calls >= 1 /\ rec[1].iterations >= 1)

\* x0 is already optimal: the one pass made leaves x = x0 with no error
C28_Witness ==
  /\ pc = "returned" /\ max_iter = 2 /\ rec[1].iterations = 1
  /\ rec[1].x = x0 /\ rec[1].error = F(0) /\ rec[1].converged
  /\ eval_at = << x0, Ones(n_ineq), Ones(n_eq) >>

\* C29: a pass that meets error <= gamma while it brings the counter to
\* max_iter gives a record with converged = True and iterations = max_iter;
\* a record has converged = False only when the last pass failed the test,
\* and then the cap was reached; a call that made no pass returns no record.
C29_ConvergenceBeforeCap ==
  /\ pc = "returned" =>
       /\ (iter_counter = max_iter /\ FLe(error, gamma)) =>
            (rec[1].converged /\ rec[1].iterations = max_iter)
       /\ ~rec[1].converged =>
            (~FLe(error, gamma) /\ rec[1].iterations = max_iter /\ eval_calls >= 1)
  /\ (Left /\ eval_calls = 0) => (pc = "raised" /\ rec = <<>>)

\* the one allowed pass meets the test: the loop is left with the cap
\* reached and the state converged at once
C29_Witness ==
  /\ pc = "returned" /\ max_iter = 1 /\ rec[1].iterations = 1
  /\ rec[1].converged /\ ~solve_failed /\ FGt(rec[1].error, F(0))
  /\ ~LoopCond(FALSE, iter_counter, max_iter)

\* ------------------------------------------------------------------------
\* nonlinear_contingency_analysis: the loop over the contingency groups
\* (Simulations/ContingencyAnalysis/Methods/nonlinear_contingency_analysis.py)
\* ------------------------------------------------------------------------
MaxGroups == 3

\* idtags of the contingency groups
GroupTags == {1, 2}

\* the variables of interior_point_solver
ips == << pc, args, x, z, lam, mu, gamma, error, iter_counter, converged,
          z_inv, mu_diag, error_evolution, ret, dx, dz, dmu, dlam, rec,
          eval_calls, solve_calls, solve_failed, printed, eval_at >>

\* set_con_or_ra_status(contingencies): the contingencies of group c are set
\* on the numerical circuit
SetStatus(st, c) == Append(st, c)

\* the revert left out
RevertStatus_Skipped(st, c) == st

\* set_con_or_ra_status(contingencies, revert=True): the last setting of the
\* contingencies of group c is taken back
RevertStatus(st, c) ==
  The({ IF idx = {} THEN st
        ELSE The({ SubSeq(st, 1, k - 1) \o SubSeq(st, k + 1, Len(st)) :
                   k \in {CHOOSE m \in idx : \A j \in idx : j <= m} }) :
        idx \in { {i \in 1..Len(st) : st[i] = c} } })

\* The state after line 91: the numerical circuit is newly compiled (line
\* 43) and no row of the results is written
InitNca ==
  /\ Idle
  /\ fpc = "off" /\ fargs = <<>> /\ fres = <<>>
  /\ cpc = "for"
  /\ ic = 0
  /\ groups \in UNION { [1..n -> GroupTags] : n \in 0..MaxGroups }
  /\ status = <<>>
  /\ calling_class \in BOOLEAN
  /\ results = {}

\* Lines 94 to 100: the next group is taken and its contingencies are set
NcaApply ==
  /\ cpc = "for"
  /\ ic < Len(groups)
  /\ status' = SetStatus(status, groups[ic + 1])
  /\ cpc' = "applied"
  /\ UNCHANGED << ic, groups, calling_class, results, ips, sched, helper >>

\* Lines 103 to 145: the power flow runs, row ic of the results is written,
\* the report is extended and the contingencies are reverted
NcaRun ==
  /\ cpc = "applied"
  /\ results' = results \cup {ic}
  /\ status' = RevertStatus(status, groups[ic + 1])
  /\ cpc' = "reverted"
  /\ UNCHANGED << ic, groups, calling_class, ips, sched, helper >>

\* Lines 103 to 142: the progress report, the power flow or the analysis of
\* the report raises; nothing catches it and line 145 is not reached
NcaRunRaises ==
  /\ cpc = "applied"
  /\ results' \in {results, results \cup {ic}}
  /\ cpc' = "raised"
  /\ UNCHANGED << ic, groups, status, calling_class, ips, sched, helper >>

\* Lines 147 to 149, then line 94: the early return when the caller asks for
\* it, else the next turn of the loop
NcaCancelCheck ==
  /\ cpc = "reverted"
  /\ \E is_cancel \in (IF calling_class THEN BOOLEAN ELSE {FALSE}) :
       IF calling_class /\ is_cancel
       THEN cpc' = "returned" /\ ic' = ic
       ELSE cpc' = "for" /\ ic' = ic + 1
  /\ UNCHANGED << groups, status, calling_class, results, ips, sched, helper >>

\* Line 151: the return after the last group
NcaReturn ==
  /\ cpc = "for"
  /\ ic = Len(groups)
  /\ cpc' = "returned"
  /\ UNCHANGED << ic, groups, status, calling_class, results, ips, sched, helper >>

NextNca == NcaApply \/ NcaRun \/ NcaRunRaises \/ NcaCancelCheck \/ NcaReturn

SpecNca == InitNca /\ [][NextNca]_vars

\* C30: the contingencies of a group are set, then reverted, before the
\* next group is taken and before any return: the status changes only from
\* nothing set to the current group set and back, at most one group is set
\* at any time, and at every return, early or after the last group, nothing
\* is set.
C30_StatusRestored ==
  /\ [](Len(status) <= 1)
  /\ [](cpc \in {"for", "reverted", "returned"} => status = <<>>)
  /\ [](cpc = "applied" => status = <<groups[ic + 1]>>)
  /\ [][ status' # status =>
           \/ status = <<>> /\ status' = <<groups[ic + 1]>> /\ cpc' = "applied"
           \/ status = <<groups[ic + 1]>> /\ status' = <<>> /\ cpc' = "reverted"
       ]_vars
  /\ [][ cpc = "returned" => UNCHANGED vars ]_vars

\* the early return after the second of three groups
C30_Witness ==
  /\ cpc = "returned" /\ calling_class /\ Len(groups) = 3 /\ ic = 1
  /\ results = {0, 1} /\ status = <<>> /\ groups[1] = groups[2]

\* the return after the last group
C30_WitnessEnd ==
  /\ cpc = "returned" /\ ~calling_class /\ Len(groups) = 3 /\ ic = 3
  /\ results = {0, 1, 2} /\ status = <<>>
====
